---- MODULE Spec2Model ----
(***************************************************************************)
(* StockSim, static/main.js: the StockAPI data client (request cache,     *)
(* error detection, response reshaping) and the StockApp controller.       *)
(*                                                                         *)
(* JavaScript runs the code of one task to its next await without          *)
(* interleaving, so every action below is one such run-to-suspension       *)
(* segment of a handler.                                                   *)
(***************************************************************************)
EXTENDS Integers, Sequences, FiniteSets, TLC

\* Bounds of the model.
MaxPending == 2
MaxTicks == 1
MaxStarted == 2
MaxDates == 3
MaxInputs == 3
MaxPasses == 3
MaxTimers == 2

---------------------------------------------------------------------------
\* JavaScript values. Objects keep their properties in insertion order, as
\* a sequence of <<key, value>> pairs with pairwise distinct keys.

Undefined == [t |-> "undefined"]
Null == [t |-> "null"]
NaN == [t |-> "NaN"]
Str(s) == [t |-> "string", v |-> s]
\* A number is v / 10^scale, with no trailing zero counted in scale.
Num(n) == [t |-> "number", v |-> n, scale |-> 0]
Arr(s) == [t |-> "array", v |-> s]
Obj(entries) == [t |-> "object", v |-> entries]

\* ToBoolean of a value.
Truthy(x) ==
    /\ x.t \notin {"undefined", "null", "NaN"}
    /\ ~(x.t = "string" /\ x.v = "")
    /\ ~(x.t = "number" /\ x.v = 0)

HasKey(entries, k) == \E i \in 1..Len(entries) : entries[i][1] = k

\* entries[k] of a property list.
Lookup(entries, k) ==
    IF HasKey(entries, k)
    THEN entries[CHOOSE i \in 1..Len(entries) : entries[i][1] = k][2]
    ELSE Undefined

\* data[k]: a property read. Reading a property of null or undefined is a
\* TypeError, which the callers below test for with Throws.
Get(x, k) == IF x.t = "object" THEN Lookup(x.v, k) ELSE Undefined
Throws(x) == x.t \in {"null", "undefined"}

\* obj[k] = v: an existing property keeps its place, a new one is appended.
SetProp(entries, k, v) ==
    IF HasKey(entries, k)
    THEN [i \in 1..Len(entries) |->
            IF entries[i][1] = k THEN <<k, v>> ELSE entries[i]]
    ELSE Append(entries, <<k, v>>)

\* Object.keys(x).length
KeyCount(x) == IF x.t \in {"object", "array"} THEN Len(x.v) ELSE 0

\* new Error(message)
Error(message) == [t |-> "error", v |-> message]

---------------------------------------------------------------------------
\* Serializations, as sequences of tokens.

Quoted(s) == <<"\"", s, "\"">>

ValueJSON(x) ==
    IF x.t = "string" THEN Quoted(x.v)
    ELSE IF x.t = "number" THEN <<ToString(x.v)>>
    ELSE <<"null">>

RECURSIVE EntriesJSON(_)
EntriesJSON(entries) ==
    IF entries = <<>> THEN <<>>
    ELSE Quoted(entries[1][1]) \o <<":">> \o ValueJSON(entries[1][2])
         \o (IF Len(entries) > 1 THEN <<",">> \o EntriesJSON(Tail(entries))
             ELSE <<>>)

\* JSON.stringify(params): properties in insertion order.
JSONStringify(entries) == <<"{">> \o EntriesJSON(entries) \o <<"}">>

ValueText(x) == IF x.t = "number" THEN ToString(x.v) ELSE x.v

RECURSIVE QueryString(_)
\* new URLSearchParams(params).toString()
QueryString(entries) ==
    IF entries = <<>> THEN <<>>
    ELSE <<entries[1][1], "=", ValueText(entries[1][2])>>
         \o (IF Len(entries) > 1 THEN <<"&">> \o QueryString(Tail(entries))
             ELSE <<>>)

---------------------------------------------------------------------------
\* Strings are atoms here, so the characters of the strings the program
\* parses (numerals and dates) are tabulated; no other string of this model
\* is ever parsed.
Characters(s) ==
    CASE s = "139.12" -> <<"1", "3", "9", ".", "1", "2">>
      [] s = "138.50" -> <<"1", "3", "8", ".", "5", "0">>
      [] s = "140" -> <<"1", "4", "0">>
      [] s = "-0.62" -> <<"-", "0", ".", "6", "2">>
      [] s = "3574" -> <<"3", "5", "7", "4">>
      [] s = "0.98" -> <<"0", ".", "9", "8">>
      [] s = "2023-12-29" -> <<"2", "0", "2", "3", "-", "1", "2", "-", "2", "9">>
      [] s = "2024-01-02" -> <<"2", "0", "2", "4", "-", "0", "1", "-", "0", "2">>
      [] s = "2024-01-10" -> <<"2", "0", "2", "4", "-", "0", "1", "-", "1", "0">>
      [] s = "2024-02-01" -> <<"2", "0", "2", "4", "-", "0", "2", "-", "0", "1">>
      [] s = "" -> <<>>
      [] s = "i" -> <<"i">>
      [] s = "ib" -> <<"i", "b">>
      [] s = "ib " -> <<"i", "b", " ">>
      [] s = "ibm" -> <<"i", "b", "m">>
      [] s = "10" -> <<"1", "0">>
      [] OTHER -> <<"?">>

DigitChars == {"0", "1", "2", "3", "4", "5", "6", "7", "8", "9"}
DigitValue(c) ==
    CASE c = "0" -> 0 [] c = "1" -> 1 [] c = "2" -> 2 [] c = "3" -> 3
      [] c = "4" -> 4 [] c = "5" -> 5 [] c = "6" -> 6 [] c = "7" -> 7
      [] c = "8" -> 8 [] c = "9" -> 9

\* The length of the longest run of digits of cs that starts at place i.
RECURSIVE DigitRun(_, _)
DigitRun(cs, i) ==
    IF i <= Len(cs) /\ cs[i] \in DigitChars THEN 1 + DigitRun(cs, i + 1) ELSE 0

\* The value of the digits cs[i], ..., cs[i + n - 1].
RECURSIVE DigitsValue(_, _, _)
DigitsValue(cs, i, n) ==
    IF n = 0 THEN 0
    ELSE 10 * DigitsValue(cs, i, n - 1) + DigitValue(cs[i + n - 1])

RECURSIVE Pow10(_)
Pow10(n) == IF n = 0 THEN 1 ELSE 10 * Pow10(n - 1)

RECURSIVE Normal(_, _)
Normal(m, e) ==
    IF e > 0 /\ m % 10 = 0 THEN Normal(m \div 10, e - 1)
    ELSE [t |-> "number", v |-> m, scale |-> e]

\* parseFloat(x): an optional sign, digits, and an optional fraction; NaN
\* when no digit is found (also for undefined).
ParseFloat(x) ==
    IF x.t # "string" THEN NaN
    ELSE LET cs == Characters(x.v)
             neg == Len(cs) > 0 /\ cs[1] = "-"
             i == IF neg THEN 2 ELSE 1
             n == DigitRun(cs, i)
             dot == i + n <= Len(cs) /\ cs[i + n] = "."
             f == IF dot THEN DigitRun(cs, i + n + 1) ELSE 0
             m == DigitsValue(cs, i, n) * Pow10(f)
                  + DigitsValue(cs, i + n + 1, f)
         IN  IF n + f = 0 THEN NaN
             ELSE Normal(IF neg THEN 0 - m ELSE m, f)

\* parseInt(x): an optional sign and digits; NaN when no digit is found.
ParseInt(x) ==
    IF x.t # "string" THEN NaN
    ELSE LET cs == Characters(x.v)
             neg == Len(cs) > 0 /\ cs[1] = "-"
             i == IF neg THEN 2 ELSE 1
             n == DigitRun(cs, i)
             m == DigitsValue(cs, i, n)
         IN  IF n = 0 THEN NaN ELSE Num(IF neg THEN 0 - m ELSE m)

LeapYear(y) == (y % 4 = 0 /\ y % 100 # 0) \/ y % 400 = 0
DaysInMonth(y, m) ==
    IF m = 2 THEN (IF LeapYear(y) THEN 29 ELSE 28)
    ELSE IF m \in {4, 6, 9, 11} THEN 30 ELSE 31

\* Days from 1970-01-01 to the civil date y-m-d.
DaysFromCivil(y, m, d) ==
    LET yy == IF m <= 2 THEN y - 1 ELSE y
        era == yy \div 400
        yoe == yy - era * 400
        mp == (m + 9) % 12
        doy == (153 * mp + 2) \div 5 + d - 1
        doe == yoe * 365 + yoe \div 4 - yoe \div 100 + doy
    IN  era * 146097 + doe - 719468

\* new Date(s) for a date-only string YYYY-MM-DD: the time value of that day's
\* midnight, UTC; NaN (Invalid Date) for anything else. The time value is
\* counted in days, not milliseconds (every such value is a whole number of
\* days, and 32-bit integers do not hold the milliseconds).
DateValue(x) ==
    IF x.t # "string" THEN NaN
    ELSE LET cs == Characters(x.v)
             wellFormed ==
                 /\ Len(cs) = 10
                 /\ DigitRun(cs, 1) = 4 /\ cs[5] = "-"
                 /\ DigitRun(cs, 6) = 2 /\ cs[8] = "-"
                 /\ DigitRun(cs, 9) = 2
             y == DigitsValue(cs, 1, 4)
             m == DigitsValue(cs, 6, 2)
             d == DigitsValue(cs, 9, 2)
         IN  IF wellFormed /\ m \in 1..12 /\ d \in 1..DaysInMonth(y, m)
             THEN Num(DaysFromCivil(y, m, d))
             ELSE NaN

\* (a, b) => new Date(a.date) - new Date(b.date); sort reads NaN as 0.
CompareByDate(a, b) ==
    LET da == DateValue(Get(a, "date"))
        db == DateValue(Get(b, "date"))
    IN  IF da = NaN \/ db = NaN THEN 0 ELSE da.v - db.v

\* Array.prototype.sort with that comparator: a stable sort.
RECURSIVE Insert(_, _)
Insert(sorted, x) ==
    IF sorted = <<>> THEN <<x>>
    ELSE IF CompareByDate(sorted[Len(sorted)], x) > 0
    THEN Append(Insert(SubSeq(sorted, 1, Len(sorted) - 1), x),
                sorted[Len(sorted)])
    ELSE Append(sorted, x)

RECURSIVE SortByDate(_)
SortByDate(s) ==
    IF s = <<>> THEN <<>>
    ELSE Insert(SortByDate(SubSeq(s, 1, Len(s) - 1)), s[Len(s)])

---------------------------------------------------------------------------
\* StockAPI: construction.

apiKey == "ZFGYFKSFVIVE7WGT"
baseUrl == "https://www.alphavantage.co/query"
DefaultCacheDuration == 5 * 60 * 1000


\* Symbols and parameter mappings the callers of this model pass.
Symbol == "IBM"
QuoteParams == << <<"function", Str("GLOBAL_QUOTE")>>, <<"symbol", Str(Symbol)>> >>
QuoteParamsSwapped == << <<"symbol", Str(Symbol)>>, <<"function", Str("GLOBAL_QUOTE")>> >>
ParamLiterals == {QuoteParams, QuoteParamsSwapped}

\* What the transport answers in this model: a response with a status and
\* the document response.json() parses from it.
Statuses == {200, 500}
Durations == {0, DefaultCacheDuration}
TickSteps == {DefaultCacheDuration - 1, DefaultCacheDuration}

QuoteObject(price) ==
    Obj(<< <<"01. symbol", Str(Symbol)>>, <<"02. open", Str("138.50")>>,
           <<"03. high", Str("140")>>, <<"04. low", Str("138.50")>>,
           <<"05. price", Str(price)>>, <<"06. volume", Str("3574")>>,
           <<"07. latest trading day", Str("2024-01-02")>>,
           <<"08. previous close", Str("140")>>, <<"09. change", Str("-0.62")>>,
           <<"10. change percent", Str("-0.44%")>> >>)
QuoteBody == Obj(<< <<"Global Quote", QuoteObject("139.12")>> >>)
AdvisoryBody == Obj(<< <<"Note", Str("API call frequency exceeded")>> >>)
ErrorBody == Obj(<< <<"Error Message", Str("Invalid API call")>> >>)
EmptyErrorBody == Obj(<< <<"Error Message", Str("")>> >>)
EmptyBody == Obj(<<>>)
CommonBodies == {AdvisoryBody, ErrorBody, EmptyErrorBody}

\* Daily bars as the server sends them, keyed by date.
Dates == {"2023-12-29", "2024-01-02", "2024-01-10", "2024-02-01"}
DailyValues(date) ==
    Obj(<< <<"1. open", Str("138.50")>>, <<"2. high", Str("140")>>,
           <<"3. low", Str("138.50")>>,
           <<"4. close", Str(IF date = "2024-01-02" THEN "139.12" ELSE "140")>>,
           <<"5. volume", Str("3574")>> >>)
AdjustedValues(date) ==
    Obj(<< <<"1. open", Str("138.50")>>, <<"2. high", Str("140")>>,
           <<"3. low", Str("138.50")>>,
           <<"4. close", Str(IF date = "2024-01-02" THEN "139.12" ELSE "140")>>,
           <<"5. adjusted close", Str("139.12")>>, <<"6. volume", Str("3574")>>,
           <<"7. dividend amount", Str("0.98")>>,
           <<"8. split coefficient", Str("140")>> >>)

\* The orders in which up to MaxDates distinct dates can arrive.
DateOrders ==
    {ds \in UNION {[1..n -> Dates] : n \in 1..MaxDates} :
        \A i, j \in 1..Len(ds) : i # j => ds[i] # ds[j]}
SeriesBody(ds, adjusted) ==
    Obj(<< <<"Meta Data", Obj(<< <<"2. Symbol", Str(Symbol)>> >>)>>,
           <<"Time Series (Daily)",
             Obj([i \in 1..Len(ds) |->
                    <<ds[i], IF adjusted THEN AdjustedValues(ds[i])
                             ELSE DailyValues(ds[i])>>])>> >>)

Match ==
    Obj(<< <<"1. symbol", Str(Symbol)>>, <<"2. name", Str("IBM Corp")>>,
           <<"3. type", Str("Equity")>>, <<"4. region", Str("United States")>>,
           <<"5. marketOpen", Str("09:30")>>, <<"6. marketClose", Str("16:00")>>,
           <<"7. timezone", Str("UTC-04")>>, <<"8. currency", Str("USD")>>,
           <<"9. matchScore", Str("0.98")>> >>)
SearchBodies ==
    {Obj(<< <<"bestMatches", Arr(ms)>> >>) : ms \in {<<>>, <<Match>>}}
OverviewBody ==
    Obj(<< <<"Symbol", Str(Symbol)>>, <<"Name", Str("IBM Corp")>> >>)
StatusBody ==
    Obj(<< <<"endpoint", Str("Global Market Open & Close Status")>>,
           <<"markets", Arr(<< Obj(<< <<"region", Str("United States")>>,
                                      <<"current_status", Str("open")>> >>) >>)>> >>)
Mover(ticker) == Obj(<< <<"ticker", Str(ticker)>> >>)
MoversBody ==
    Obj(<< <<"top_gainers", Arr(<<Mover("UP1"), Mover("UP2")>>)>>,
           <<"top_losers", Arr(<<Mover("DOWN1")>>)>>,
           <<"most_actively_traded", Arr(<<Mover("BUSY1")>>)>> >>)
GainersOnlyBody ==
    Obj(<< <<"top_gainers", Arr(<<Mover("UP1")>>)>> >>)
RateBody ==
    Obj(<< <<"Realtime Currency Exchange Rate",
             Obj(<< <<"1. From_Currency Code", Str("USD")>>,
                    <<"2. From_Currency Name", Str("United States Dollar")>>,
                    <<"3. To_Currency Code", Str("EUR")>>,
                    <<"4. To_Currency Name", Str("Euro")>>,
                    <<"5. Exchange Rate", Str("0.98")>>,
                    <<"6. Last Refreshed", Str("2024-01-02 16:00:00")>>,
                    <<"7. Time Zone", Str("UTC")>>,
                    <<"8. Bid Price", Str("0.98")>>,
                    <<"9. Ask Price", Str("0.98")>> >>)>> >>)
IndicatorBody(name) ==
    Obj(<< <<"Technical Analysis: " \o name,
             Obj(<< <<"2024-01-02", Obj(<< <<name, Str("139.12")>> >>)>> >>)>> >>)

FunctionOf(entries) == Lookup(entries, "function").v
Bodies(fn) ==
    CommonBodies \cup
    CASE fn = "GLOBAL_QUOTE" -> {QuoteBody}
      [] fn = "TIME_SERIES_DAILY" -> {SeriesBody(ds, FALSE) : ds \in DateOrders}
      [] fn = "TIME_SERIES_DAILY_ADJUSTED" ->
            {SeriesBody(ds, TRUE) : ds \in DateOrders}
      [] fn = "SYMBOL_SEARCH" -> SearchBodies
      [] fn = "OVERVIEW" -> {EmptyBody, OverviewBody}
      [] fn = "MARKET_STATUS" -> {StatusBody}
      [] fn = "TOP_GAINERS_LOSERS" -> {MoversBody, GainersOnlyBody}
      [] fn = "CURRENCY_EXCHANGE_RATE" -> {RateBody}
      [] fn \in {"SMA", "RSI", "MACD"} -> {IndicatorBody(fn)}

---------------------------------------------------------------------------
VARIABLES
    cache,          \* this.cache: cache key -> [data, timestamp]
    cacheDuration,  \* this.cacheDuration
    now,            \* Date.now()
    ticks,          \* how often the clock has advanced
    params,         \* the params objects callers keep and pass again
    pending,        \* the invocations suspended at await, oldest first
    last,           \* the invocation that returned or threw most recently
    lastReturn,     \* TRUE while the return of last is the latest event
    cleared,        \* keys dropped by clearCache and not requested since
    started,        \* how many derived operations have been called
    timeout,        \* debounce: the timer id the closure holds, 0 for none
    timers,         \* the timers set and neither fired nor cleared
    timerIds,       \* how many timers setTimeout has handed out
    box,            \* the value of the stockSearch input
    events,         \* how many input events the debounced listener has had
    typedAt,        \* the time of the latest of them
    ran,            \* the input events handleSearch was run for, and when
    waiting,        \* the handler suspended on each request of pending
    resumed,        \* the handler the latest return of the client resumed
    shown,          \* what searchResults shows, and the query it answers
    searched,       \* the query of the latest symbolSearch call
    alerts,         \* the alert dialogs shown, oldest first
    consoleLast     \* the latest console call of the page

page == <<timeout, timers, timerIds, box, events, typedAt, ran, waiting,
          resumed, shown, searched, alerts, consoleLast>>

vars == <<cache, cacheDuration, now, ticks, params, pending, last, lastReturn,
          cleared, started, page>>

NoCache == <<>>
NoCall == [outcome |-> "none"]
Entry(data, timestamp) == [data |-> data, timestamp |-> timestamp]

\* Mutant: a key that forgets the order of the fields.
CacheKeyUnordered(entries) == {entries[i] : i \in 1..Len(entries)}

\* const cacheKey = JSON.stringify(params)
CacheKey(entries) == JSONStringify(entries)

\* this.cache.get(cacheKey)
CacheGet(c, key) == IF key \in DOMAIN c THEN c[key] ELSE Undefined

\* Mutant: the age test with <= for <.
IsFreshInclusive(cached, t, duration) == (t - cached.timestamp) <= duration

\* (Date.now() - cached.timestamp) < this.cacheDuration
IsFresh(cached, t, duration) == (t - cached.timestamp) < duration

\* Mutant: any stored entry is served, whatever its age.
CacheHitAnyAge(cached, t, duration) == cached # Undefined

\* cached && (Date.now() - cached.timestamp) < this.cacheDuration
CacheHit(cached, t, duration) ==
    cached # Undefined /\ IsFresh(cached, t, duration)

\* Mutant: the response is returned without being stored.
CacheSetDropped(c, key, data, t) == c

\* Mutant: an entry already stored is kept, the first writer wins.
CacheSetFirstWins(c, key, data, t) ==
    [k \in DOMAIN c \cup {key} |-> IF k \in DOMAIN c THEN c[k] ELSE Entry(data, t)]

\* this.cache.set(cacheKey, {data, timestamp: Date.now()})
CacheSet(c, key, data, t) ==
    [k \in DOMAIN c \cup {key} |-> IF k = key THEN Entry(data, t) ELSE c[k]]

\* Mutant: every status from 200 up counts as success.
ResponseOkNoUpperBound(status) == status >= 200

\* response.ok
ResponseOk(status) == status >= 200 /\ status <= 299

\* new Error(`HTTP error! status: ${response.status}`)
HttpError(status) == Error(<<"HTTP error! status: ", ToString(status)>>)

\* Mutant: an advisory is treated as an error too.
HasApiErrorOrNote(data) ==
    Truthy(Get(data, "Error Message")) \/ Truthy(Get(data, "Note"))

\* data['Error Message'] is truthy
HasApiError(data) == Truthy(Get(data, "Error Message"))

\* new Error(data['Error Message']): the message is the string itself, and
\* empty for undefined.
ApiError(data) ==
    LET message == Get(data, "Error Message")
    IN  Error(IF message.t = "string" THEN <<message.v>> ELSE <<>>)

Init ==
    /\ cache = NoCache
    /\ cacheDuration = DefaultCacheDuration
    /\ now = 0
    /\ ticks = 0
    /\ params = <<QuoteParams>>
    /\ pending = <<>>
    /\ last = NoCall
    /\ lastReturn = FALSE
    /\ cleared = {}
    /\ started = 0
    /\ timeout = 0
    /\ timers = {}
    /\ timerIds = 0
    /\ box = ""
    /\ events = 0
    /\ typedAt = 0
    /\ ran = <<>>
    /\ waiting = <<>>
    /\ resumed = [handler |-> "none"]
    /\ shown = [query |-> "", html |-> Undefined]
    /\ searched = ""
    /\ alerts = <<>>
    /\ consoleLast = Undefined

---------------------------------------------------------------------------
\* x || fallback
Or(x, fallback) == IF Truthy(x) THEN x ELSE fallback

\* parseGlobalQuote(quoteData)
ParseGlobalQuote(quoteData) ==
    Obj(<< <<"symbol", Get(quoteData, "01. symbol")>>,
           <<"open", ParseFloat(Get(quoteData, "02. open"))>>,
           <<"high", ParseFloat(Get(quoteData, "03. high"))>>,
           <<"low", ParseFloat(Get(quoteData, "04. low"))>>,
           <<"price", ParseFloat(Get(quoteData, "05. price"))>>,
           <<"volume", ParseInt(Get(quoteData, "06. volume"))>>,
           <<"latestTradingDay", Get(quoteData, "07. latest trading day")>>,
           <<"previousClose", ParseFloat(Get(quoteData, "08. previous close"))>>,
           <<"change", ParseFloat(Get(quoteData, "09. change"))>>,
           <<"changePercent", Get(quoteData, "10. change percent")>> >>)

\* The object pushed for one [date, values] entry of the time series.
DailyBar(date, values) ==
    Obj(<< <<"date", Str(date)>>,
           <<"open", ParseFloat(Get(values, "1. open"))>>,
           <<"high", ParseFloat(Get(values, "2. high"))>>,
           <<"low", ParseFloat(Get(values, "3. low"))>>,
           <<"close", ParseFloat(Get(values, "4. close"))>>,
           <<"volume", ParseInt(Get(values, "5. volume"))>> >>)

AdjustedBar(date, values) ==
    Obj(<< <<"date", Str(date)>>,
           <<"open", ParseFloat(Get(values, "1. open"))>>,
           <<"high", ParseFloat(Get(values, "2. high"))>>,
           <<"low", ParseFloat(Get(values, "3. low"))>>,
           <<"close", ParseFloat(Get(values, "4. close"))>>,
           <<"adjustedClose", ParseFloat(Get(values, "5. adjusted close"))>>,
           <<"volume", ParseInt(Get(values, "6. volume"))>>,
           <<"dividendAmount", ParseFloat(Get(values, "7. dividend amount"))>>,
           <<"splitCoefficient", ParseFloat(Get(values, "8. split coefficient"))>> >>)

\* Mutant: the bars are returned in the order of the response.
Unsorted(s) == s

\* series.sort((a, b) => new Date(a.date) - new Date(b.date))
SortSeries(s) == SortByDate(s)

\* parseTimeSeries(timeSeriesData): Object.entries in insertion order, then
\* the sort.
ParseTimeSeries(timeSeriesData) ==
    Arr(SortSeries([i \in 1..Len(timeSeriesData.v) |->
            DailyBar(timeSeriesData.v[i][1], timeSeriesData.v[i][2])]))

\* parseTimeSeriesAdjusted(timeSeriesData)
ParseTimeSeriesAdjusted(timeSeriesData) ==
    Arr(SortSeries([i \in 1..Len(timeSeriesData.v) |->
            AdjustedBar(timeSeriesData.v[i][1], timeSeriesData.v[i][2])]))

SymbolMatch(match) ==
    Obj(<< <<"symbol", Get(match, "1. symbol")>>,
           <<"name", Get(match, "2. name")>>,
           <<"type", Get(match, "3. type")>>,
           <<"region", Get(match, "4. region")>>,
           <<"marketOpen", Get(match, "5. marketOpen")>>,
           <<"marketClose", Get(match, "6. marketClose")>>,
           <<"timezone", Get(match, "7. timezone")>>,
           <<"currency", Get(match, "8. currency")>>,
           <<"matchScore", ParseFloat(Get(match, "9. matchScore"))>> >>)

\* parseSymbolSearch(matches)
ParseSymbolSearch(matches) ==
    Arr([i \in 1..Len(matches.v) |-> SymbolMatch(matches.v[i])])

\* parseExchangeRate(rateData)
ParseExchangeRate(rateData) ==
    Obj(<< <<"fromCurrency", Get(rateData, "1. From_Currency Code")>>,
           <<"fromName", Get(rateData, "2. From_Currency Name")>>,
           <<"toCurrency", Get(rateData, "3. To_Currency Code")>>,
           <<"toName", Get(rateData, "4. To_Currency Name")>>,
           <<"exchangeRate", ParseFloat(Get(rateData, "5. Exchange Rate"))>>,
           <<"lastRefreshed", Get(rateData, "6. Last Refreshed")>>,
           <<"timeZone", Get(rateData, "7. Time Zone")>>,
           <<"bidPrice", ParseFloat(Get(rateData, "8. Bid Price"))>>,
           <<"askPrice", ParseFloat(Get(rateData, "9. Ask Price"))>> >>)

\* Mutant: `losers` reads the gainers.
MoversFieldSwapped(listType) ==
    IF listType = "gainers" THEN "top_gainers"
    ELSE IF listType = "losers" THEN "top_gainers"
    ELSE "most_actively_traded"

\* The field getMarketMovers reads for a listType.
MoversField(listType) ==
    IF listType = "gainers" THEN "top_gainers"
    ELSE IF listType = "losers" THEN "top_losers"
    ELSE "most_actively_traded"

\* Mutant: a response with anything in it but the company's fields is null.
OverviewResultStrict(data) ==
    IF KeyCount(data) > 0 /\ Truthy(Get(data, "Symbol")) THEN data ELSE Null

\* Object.keys(data).length > 0 ? data : null
OverviewResult(data) == IF KeyCount(data) > 0 THEN data ELSE Null

\* What the caller of an operation gets from the data makeRequest returned:
\* the return statement of each derived operation.
Reshape(op, arg, data) ==
    CASE op = "makeRequest" -> data
      [] op = "getGlobalQuote" ->
            IF Truthy(Get(data, "Global Quote"))
            THEN ParseGlobalQuote(Get(data, "Global Quote")) ELSE Null
      [] op = "getTimeSeriesDaily" ->
            IF Truthy(Get(data, "Time Series (Daily)"))
            THEN ParseTimeSeries(Get(data, "Time Series (Daily)")) ELSE Null
      [] op = "getTimeSeriesDailyAdjusted" ->
            IF Truthy(Get(data, "Time Series (Daily)"))
            THEN ParseTimeSeriesAdjusted(Get(data, "Time Series (Daily)"))
            ELSE Null
      [] op = "symbolSearch" ->
            IF Truthy(Get(data, "bestMatches"))
            THEN ParseSymbolSearch(Get(data, "bestMatches")) ELSE Arr(<<>>)
      [] op = "getCompanyOverview" -> OverviewResult(data)
      [] op = "getMarketStatus" -> Or(Get(data, "markets"), Arr(<<>>))
      [] op = "getMarketMovers" -> Or(Get(data, MoversField(arg)), Arr(<<>>))
      [] op = "getExchangeRate" ->
            IF Truthy(Get(data, "Realtime Currency Exchange Rate"))
            THEN ParseExchangeRate(Get(data, "Realtime Currency Exchange Rate"))
            ELSE Null
      [] op = "getSMA" -> Or(Get(data, "Technical Analysis: SMA"), Obj(<<>>))
      [] op = "getRSI" -> Or(Get(data, "Technical Analysis: RSI"), Obj(<<>>))
      [] op = "getMACD" -> Or(Get(data, "Technical Analysis: MACD"), Obj(<<>>))

\* The invocation that returned just before this one started, if any.
Previous ==
    IF lastReturn
    THEN [op |-> last.op, arg |-> last.arg, key |-> last.key, at |-> last.at,
          hit |-> last.hit, data |-> last.data]
    ELSE Undefined

Without(s, i) == [j \in 1..(Len(s) - 1) |-> IF j < i THEN s[j] ELSE s[j + 1]]

\* makeRequest(params), from its start to its first suspension: the cache
\* lookup, and either the return of the cached payload or the injection of
\* the credential into the caller's object and the fetch. obj is the place
\* of the caller's object in params, 0 for an object literal nobody keeps.
Begin(op, arg, obj, entries) ==
    LET cacheKey == CacheKey(entries)
        cached == CacheGet(cache, cacheKey)
        sent == SetProp(entries, "apikey", Str(apiKey))
        call == [op |-> op, arg |-> arg, fn |-> FunctionOf(entries),
                 key |-> cacheKey, stale |-> cached # Undefined,
                 url |-> <<baseUrl, "?">> \o QueryString(sent)]
    IN  IF CacheHit(cached, now, cacheDuration)
        THEN /\ last' = [op |-> op, arg |-> arg, key |-> cacheKey,
                         seen |-> cached, stale |-> FALSE, hit |-> TRUE,
                         status |-> 0, body |-> Undefined,
                         outcome |-> "ok", data |-> cached.data,
                         result |-> Reshape(op, arg, cached.data),
                         logged |-> <<>>, at |-> now, follows |-> Previous]
             /\ lastReturn' = TRUE
             /\ cleared' = cleared \ {cacheKey}
             /\ UNCHANGED <<cache, cacheDuration, now, ticks, params, pending>>
        ELSE /\ Len(pending) < MaxPending
             /\ pending' = Append(pending, call)
             /\ params' = IF obj = 0 THEN params
                          ELSE [params EXCEPT ![obj] = sent]
             /\ lastReturn' = FALSE
             /\ cleared' = cleared \ {cacheKey}
             /\ UNCHANGED <<cache, cacheDuration, now, ticks, last>>

\* What an invocation that went to the network leaves behind.
Finished(call, status, body, outcome, data, result, logged) ==
    [op |-> call.op, arg |-> call.arg, key |-> call.key, seen |-> Undefined,
     stale |-> call.stale, hit |-> FALSE, status |-> status, body |-> body,
     outcome |-> outcome, data |-> data,
     result |-> result, logged |-> logged, at |-> now, follows |-> Undefined]

\* The catch block: console.error, then throw error.
Fail(i, status, body, error) ==
    /\ last' = Finished(pending[i], status, body, "error", Undefined, error,
                        << [level |-> "error",
                            args |-> <<"API request failed:", error>>] >>)
    /\ pending' = Without(pending, i)
    /\ lastReturn' = FALSE
    /\ UNCHANGED <<cache, cacheDuration, now, ticks, params, cleared>>

\* console.warn('API rate limit note:', data['Note'])
Warned(data) ==
    IF Truthy(Get(data, "Note"))
    THEN << [level |-> "warn",
             args |-> <<"API rate limit note:", Get(data, "Note")>>] >>
    ELSE <<>>

\* The rest of makeRequest once the transport has answered: the status
\* test, the parsed document's error check, the advisory, the store and the
\* return. (The second suspension, at response.json(), touches nothing
\* shared and is folded into this step.)
Settled(i, status, data) ==
    IF ~ResponseOk(status)
    THEN Fail(i, status, Undefined, HttpError(status))
    ELSE IF HasApiError(data)
    THEN Fail(i, status, data, ApiError(data))
    ELSE /\ cache' = CacheSet(cache, pending[i].key, data, now)
         /\ last' = Finished(pending[i], status, data, "ok", data,
                             Reshape(pending[i].op, pending[i].arg, data),
                             Warned(data))
         /\ pending' = Without(pending, i)
         /\ lastReturn' = TRUE
         /\ UNCHANGED <<cacheDuration, now, ticks, params, cleared>>

\* A caller passes a fresh object literal to makeRequest.
MakeRequest ==
    /\ \E entries \in ParamLiterals :
          Begin("makeRequest", Undefined, 0, entries)
    /\ UNCHANGED <<started, page>>

\* A caller passes an object it has kept and may have passed before.
MakeRequestAgain ==
    /\ \E obj \in 1..Len(params) :
          Begin("makeRequest", Undefined, obj, params[obj])
    /\ UNCHANGED <<started, page>>

\* The transport answers one of the outstanding requests.
Settles ==
    /\ \E i \in 1..Len(pending) :
          \E status \in Statuses :
              \E data \in Bodies(pending[i].fn) : Settled(i, status, data)
    /\ UNCHANGED <<started, page>>

\* clearCache()
ClearCache ==
    /\ cache' = NoCache
    /\ cleared' = cleared \cup DOMAIN cache
    /\ lastReturn' = FALSE
    /\ UNCHANGED <<cacheDuration, now, ticks, params, pending, last, started,
                   page>>

\* Mutant: changing the threshold also drops what is stored.
SetCacheDurationClears ==
    \E duration \in Durations :
        /\ cacheDuration' = duration
        /\ cache' = NoCache
        /\ lastReturn' = FALSE
        /\ UNCHANGED <<now, ticks, params, pending, last, cleared, started,
                       page>>

\* setCacheDuration(duration)
SetCacheDuration ==
    \E duration \in Durations :
        /\ cacheDuration' = duration
        /\ lastReturn' = FALSE
        /\ UNCHANGED <<cache, now, ticks, params, pending, last, cleared,
                       started, page>>

\* Time passes between two tasks.
Tick ==
    \E step \in TickSteps :
        /\ ticks < MaxTicks
        /\ ticks' = ticks + 1
        /\ now' = now + step
        /\ UNCHANGED <<cache, cacheDuration, params, pending, last, lastReturn,
                       cleared, started, page>>

Next ==
    \/ MakeRequest
    \/ Settles
    \/ ClearCache
    \/ SetCacheDuration
    \/ Tick

Spec == Init /\ [][Next]_vars

\* Callers that pass again the object makeRequest has written apikey into.
NextReuse ==
    \/ MakeRequest
    \/ MakeRequestAgain
    \/ Settles

SpecReuse == Init /\ [][NextReuse]_vars

---------------------------------------------------------------------------
\* The derived operations: each builds a fresh params literal, awaits
\* makeRequest and reshapes what it returned.

ListTypes == {"gainers", "losers", "active"}

Call(op, arg, entries) ==
    /\ started < MaxStarted
    /\ started' = started + 1
    /\ Begin(op, arg, 0, entries)
    /\ UNCHANGED page

GetGlobalQuote ==
    Call("getGlobalQuote", Undefined,
         << <<"function", Str("GLOBAL_QUOTE")>>, <<"symbol", Str(Symbol)>> >>)

GetTimeSeriesDaily ==
    Call("getTimeSeriesDaily", Undefined,
         << <<"function", Str("TIME_SERIES_DAILY")>>,
            <<"symbol", Str(Symbol)>>, <<"outputsize", Str("compact")>> >>)

GetTimeSeriesDailyAdjusted ==
    Call("getTimeSeriesDailyAdjusted", Undefined,
         << <<"function", Str("TIME_SERIES_DAILY_ADJUSTED")>>,
            <<"symbol", Str(Symbol)>>, <<"outputsize", Str("compact")>> >>)

SymbolSearch ==
    Call("symbolSearch", Undefined,
         << <<"function", Str("SYMBOL_SEARCH")>>, <<"keywords", Str("ib")>> >>)

GetCompanyOverview ==
    Call("getCompanyOverview", Undefined,
         << <<"function", Str("OVERVIEW")>>, <<"symbol", Str(Symbol)>> >>)

GetMarketStatus ==
    Call("getMarketStatus", Undefined, << <<"function", Str("MARKET_STATUS")>> >>)

\* All three list types ask for the same function.
GetMarketMovers ==
    \E listType \in ListTypes :
        Call("getMarketMovers", listType,
             << <<"function", Str("TOP_GAINERS_LOSERS")>> >>)

GetExchangeRate ==
    Call("getExchangeRate", Undefined,
         << <<"function", Str("CURRENCY_EXCHANGE_RATE")>>,
            <<"from_currency", Str("USD")>>, <<"to_currency", Str("EUR")>> >>)

GetSMA ==
    Call("getSMA", Undefined,
         << <<"function", Str("SMA")>>, <<"symbol", Str(Symbol)>>,
            <<"interval", Str("daily")>>, <<"time_period", Num(20)>>,
            <<"series_type", Str("close")>> >>)

GetRSI ==
    Call("getRSI", Undefined,
         << <<"function", Str("RSI")>>, <<"symbol", Str(Symbol)>>,
            <<"interval", Str("daily")>>, <<"time_period", Num(14)>>,
            <<"series_type", Str("close")>> >>)

GetMACD ==
    Call("getMACD", Undefined,
         << <<"function", Str("MACD")>>, <<"symbol", Str(Symbol)>>,
            <<"interval", Str("daily")>>, <<"series_type", Str("close")>> >>)

NextDerived ==
    \/ GetGlobalQuote
    \/ GetTimeSeriesDaily
    \/ GetTimeSeriesDailyAdjusted
    \/ SymbolSearch
    \/ GetCompanyOverview
    \/ GetMarketStatus
    \/ GetMarketMovers
    \/ GetExchangeRate
    \/ GetSMA
    \/ GetRSI
    \/ GetMACD
    \/ Settles

SpecDerived == Init /\ [][NextDerived]_vars

---------------------------------------------------------------------------
\* StockApp: the page. A handler runs from the event that starts it to its
\* first await, and from the answer it awaits to its end.

Wait == 300
RefreshDelay == 1000
PassSteps == {Wait - 1, Wait, RefreshDelay}

\* What the user types into stockSearch, and the order forms' fields.
InputValues == {"i", "ib ", "ibm"}
Texts == {"", "i", "ib", "ib ", "ibm"}
Quantity == "10"

\* String.prototype.trim and .length, on the characters of the string.
RECURSIVE TrimStart(_)
TrimStart(cs) ==
    IF cs # <<>> /\ cs[1] = " " THEN TrimStart(Tail(cs)) ELSE cs
RECURSIVE TrimEnd(_)
TrimEnd(cs) ==
    IF cs # <<>> /\ cs[Len(cs)] = " "
    THEN TrimEnd(SubSeq(cs, 1, Len(cs) - 1)) ELSE cs
Trim(s) == CHOOSE t \in Texts : Characters(t) = TrimEnd(TrimStart(Characters(s)))
Length(s) == Len(Characters(s))

\* Number.prototype.toFixed(2), for the numbers parseFloat gives.
TwoDigits(n) == IF n < 10 THEN <<"0", ToString(n)>> ELSE <<ToString(n)>>
ToFixed2(x) ==
    IF x.t = "NaN" THEN <<"NaN">>
    ELSE LET abs == IF x.v < 0 THEN 0 - x.v ELSE x.v
             cents == IF x.scale <= 2 THEN abs * Pow10(2 - x.scale)
                      ELSE (abs + Pow10(x.scale - 2) \div 2)
                           \div Pow10(x.scale - 2)
         IN  (IF x.v < 0 /\ cents > 0 THEN <<"-">> ELSE <<>>)
             \o <<ToString(cents \div 100), ".">> \o TwoDigits(cents % 100)

\* What the transport answers the page's requests.
EmptyQuoteBody == Obj(<< <<"Global Quote", Obj(<<>>)>> >>)
PageBodies(fn) ==
    {AdvisoryBody, ErrorBody} \cup
    CASE fn = "GLOBAL_QUOTE" -> {QuoteBody, EmptyQuoteBody}
      [] fn = "SYMBOL_SEARCH" -> SearchBodies

\* Mutant: clearTimeout that clears nothing.
ClearTimeoutNothing(ts, id) == ts

\* clearTimeout(id)
ClearTimeout(ts, id) == {t \in ts : t.id # id}

\* setTimeout(job, delay), the new timer's id being id.
SetTimeout(ts, id, job, event, delay) ==
    ts \cup {[id |-> id, due |-> now + delay, job |-> job, event |-> event]}

NoHandler == [handler |-> "none"]
Handler(name, query) == [handler |-> name, query |-> query]

ConsoleCall(level, args) == [level |-> level, args |-> args]

\* The markup displaySearchResults writes for one result, as its fields.
SearchResultItem(result) ==
    [symbol |-> Get(result, "symbol"), name |-> Get(result, "name"),
     region |-> Get(result, "region"), currency |-> Get(result, "currency")]

\* displaySearchResults(results): what searchResults holds afterwards.
DisplaySearchResults(results) ==
    IF Len(results.v) = 0
    THEN [empty |-> TRUE, items |-> <<>>]
    ELSE [empty |-> FALSE,
          items |-> [i \in 1..(IF Len(results.v) < 5 THEN Len(results.v) ELSE 5)
                       |-> SearchResultItem(results.v[i])]]

\* handleSearch after its await: the results are displayed, or the error is
\* caught and logged.
SearchAnswered(query) ==
    IF last'.outcome = "ok"
    THEN /\ shown' = [query |-> query, html |-> DisplaySearchResults(last'.result)]
         /\ UNCHANGED <<alerts, consoleLast, timerIds>>
    ELSE /\ consoleLast' = ConsoleCall("error", <<"Search failed:", last'.result>>)
         /\ UNCHANGED <<shown, alerts, timerIds>>

\* Mutant: every quote counts as missing.
QuoteMissingAlways(quote) == TRUE

\* !quote
QuoteMissing(quote) == ~Truthy(quote)

OrderPlaced(side) == IF side = "buy" THEN "Buy order placed for "
                     ELSE "Sell order placed for "
OrderFailed(side) == IF side = "buy"
                     THEN "Failed to place buy order. Please try again."
                     ELSE "Failed to place sell order. Please try again."

\* `${Side} order placed for ${quantity} shares of ${symbol} at $${price}`
SuccessMessage(side, quantity, quote) ==
    <<OrderPlaced(side), ToString(quantity.v), " shares of ", Symbol, " at $">>
    \o ToFixed2(Get(quote, "price"))

\* handleBuy and handleSell after their await. A quote ends in showSuccess
\* and refreshPortfolio, which logs, shows the loading state and sets its
\* timer; a missing quote or a failed call ends in the catch block.
OrderAnswered(side) ==
    IF last'.outcome = "ok" /\ ~QuoteMissing(last'.result)
    THEN /\ alerts' = Append(alerts,
                <<"Success: ">> \o SuccessMessage(side, ParseInt(Str(Quantity)),
                                                 last'.result))
         /\ timerIds' = timerIds + 1
         /\ timers' = SetTimeout(timers, timerIds + 1, "refresh", 0, RefreshDelay)
         /\ consoleLast' = ConsoleCall("log", <<"Loading:", "Updating portfolio...">>)
         /\ UNCHANGED shown
    ELSE /\ alerts' = Append(alerts, <<"Error: ", OrderFailed(side)>>)
         /\ consoleLast' = ConsoleCall("error", <<"Error:", OrderFailed(side)>>)
         /\ UNCHANGED <<shown, timers, timerIds>>

\* A handler calls a derived operation and awaits it: it goes on at once
\* when makeRequest returns from the cache, and waits otherwise. ts is the
\* set of timers the handler has left before the call.
Await(op, entries, handler, ts) ==
    /\ started < MaxStarted
    /\ started' = started + 1
    /\ Begin(op, Undefined, 0, entries)
    /\ IF CacheHit(CacheGet(cache, CacheKey(entries)), now, cacheDuration)
       THEN /\ resumed' = handler
            /\ waiting' = waiting
            /\ IF handler.handler = "search"
               THEN SearchAnswered(handler.query) /\ timers' = ts
               ELSE OrderAnswered(handler.handler)
       ELSE /\ resumed' = NoHandler
            /\ waiting' = Append(waiting, handler)
            /\ timers' = ts
            /\ UNCHANGED <<shown, alerts, consoleLast, timerIds>>

\* executedFunction(event): the listener debounce returns, run for an input
\* event after the user has changed the box.
ExecutedFunction ==
    \E value \in InputValues :
        /\ events < MaxInputs
        /\ box' = value
        /\ events' = events + 1
        /\ typedAt' = now
        /\ timerIds' = timerIds + 1
        /\ timers' = SetTimeout(ClearTimeout(timers, timeout), timerIds + 1,
                                "later", events + 1, Wait)
        /\ timeout' = timerIds + 1
        /\ lastReturn' = FALSE
        /\ resumed' = NoHandler
        /\ UNCHANGED <<cache, cacheDuration, now, ticks, params, pending, last,
                       cleared, started, ran, waiting, shown, searched, alerts,
                       consoleLast>>

\* later(): the debounce timer fires, clears the timer the closure holds and
\* runs handleSearch(event) up to its await.
Later ==
    \E timer \in timers :
        /\ timer.job = "later"
        /\ now >= timer.due
        /\ ran' = Append(ran, [event |-> timer.event, at |-> now])
        /\ UNCHANGED <<timeout, box, events, typedAt>>
        /\ LET query == Trim(box)
               rest == ClearTimeout(timers \ {timer}, timeout)
           IN  IF Length(query) < 2
               THEN /\ timers' = rest
                    /\ lastReturn' = FALSE
                    /\ resumed' = NoHandler
                    /\ UNCHANGED <<cache, cacheDuration, now, ticks, params,
                                   pending, last, cleared, started, waiting,
                                   shown, searched, alerts, consoleLast,
                                   timerIds>>
               ELSE /\ searched' = query
                    /\ Await("symbolSearch",
                             << <<"function", Str("SYMBOL_SEARCH")>>,
                                <<"keywords", Str(query)>> >>,
                             Handler("search", query), rest)

\* handleBuy(event), up to its await.
HandleBuy ==
    /\ Await("getGlobalQuote", QuoteParams, Handler("buy", ""), timers)
    /\ UNCHANGED <<timeout, box, events, typedAt, ran, searched>>

\* handleSell(event), up to its await.
HandleSell ==
    /\ Await("getGlobalQuote", QuoteParams, Handler("sell", ""), timers)
    /\ UNCHANGED <<timeout, box, events, typedAt, ran, searched>>

\* The transport answers a request of the page: makeRequest and the derived
\* operation finish, and the handler that awaits them goes on.
Responds ==
    \E i \in 1..Len(pending) :
        \E status \in Statuses :
            \E data \in PageBodies(pending[i].fn) :
                /\ Settled(i, status, data)
                /\ waiting' = Without(waiting, i)
                /\ resumed' = waiting[i]
                /\ IF waiting[i].handler = "search"
                   THEN SearchAnswered(waiting[i].query) /\ UNCHANGED timers
                   ELSE OrderAnswered(waiting[i].handler)
                /\ UNCHANGED <<started, timeout, box, events, typedAt, ran,
                               searched>>

\* refreshPortfolio(), run for a click on the refresh button: it logs, shows
\* the loading state and sets its timer.
RefreshPortfolio ==
    /\ timerIds < MaxTimers
    /\ timerIds' = timerIds + 1
    /\ timers' = SetTimeout(timers, timerIds + 1, "refresh", 0, RefreshDelay)
    /\ consoleLast' = ConsoleCall("log", <<"Loading:", "Updating portfolio...">>)
    /\ lastReturn' = FALSE
    /\ resumed' = NoHandler
    /\ UNCHANGED <<cache, cacheDuration, now, ticks, params, pending, last,
                   cleared, started, timeout, box, events, typedAt, ran,
                   waiting, shown, searched, alerts>>

\* The timer of refreshPortfolio fires: hideLoading, showSuccess.
RefreshDone ==
    \E timer \in timers :
        /\ timer.job = "refresh"
        /\ now >= timer.due
        /\ timers' = timers \ {timer}
        /\ alerts' = Append(alerts, <<"Success: ", "Portfolio updated successfully">>)
        /\ consoleLast' = ConsoleCall("log", <<"Success:", "Portfolio updated successfully">>)
        /\ lastReturn' = FALSE
        /\ resumed' = NoHandler
        /\ UNCHANGED <<cache, cacheDuration, now, ticks, params, pending, last,
                       cleared, started, timeout, timerIds, box, events,
                       typedAt, ran, waiting, shown, searched>>

\* Time passes between two tasks of the page.
Passes ==
    \E step \in PassSteps :
        /\ ticks < MaxPasses
        /\ ticks' = ticks + 1
        /\ now' = now + step
        /\ UNCHANGED <<cache, cacheDuration, params, pending, last, lastReturn,
                       cleared, started, page>>

\* The search box.
NextSearch ==
    \/ ExecutedFunction
    \/ Later
    \/ Responds
    \/ Passes

SpecSearch == Init /\ [][NextSearch]_vars

\* The order forms.
NextOrder ==
    \/ HandleBuy
    \/ HandleSell
    \/ Responds
    \/ RefreshPortfolio
    \/ RefreshDone
    \/ Passes

SpecOrder == Init /\ [][NextOrder]_vars

---------------------------------------------------------------------------
\* Step shapes, read off the state change, for the properties below.

\* A makeRequest started and sent a request to the network.
MissStep ==
    /\ Len(pending') = Len(pending) + 1
    /\ \A i \in 1..Len(pending) : pending'[i] = pending[i]

\* A makeRequest started and returned at once, sending nothing.
HitStep ==
    /\ pending' = pending /\ now' = now
    /\ lastReturn' /\ last'.outcome = "ok" /\ last'.hit /\ last'.at = now

StartStep == MissStep \/ HitStep
StartedKey == IF MissStep THEN pending'[Len(pending')].key ELSE last'.key

\* An outstanding request was answered; last' tells how the call ended.
SettleStep == Len(pending') = Len(pending) - 1

HasField(data, k) == data.t = "object" /\ \E i \in 1..Len(data.v) : data.v[i][1] = k

\* C1: a makeRequest that starts right after a makeRequest with the same
\* serialization returned successfully, less than cacheDuration later, is a
\* cache hit. When the first call fetched (and so stored the entry), the second
\* returns that payload and sends nothing, so the two calls together make one
\* network call; when the first was itself a hit it made none, so the two
\* together make at most one whatever the second does.
C1_SecondCallHits ==
    [][( /\ StartStep
         /\ lastReturn /\ last.outcome = "ok" /\ ~last.hit
         /\ StartedKey = last.key
         /\ now - last.at < cacheDuration )
       => (HitStep /\ last'.data = last.data /\ last'.result = last.result)
      ]_vars

C1_Witness ==
    /\ lastReturn /\ last.outcome = "ok" /\ last.hit
    /\ last.follows # Undefined
    /\ last.follows.key = last.key
    /\ ~last.follows.hit
    /\ last.follows.data = last.data
    /\ last.at > last.follows.at

\* C2: an entry is usable iff now - storedAt < cacheDuration. A makeRequest
\* returns a stored payload only from an entry with now - storedAt <
\* cacheDuration, and goes to the network for a key that has an entry only if
\* now - storedAt >= cacheDuration; and when a request that had found a stale
\* entry succeeds, the entry becomes the new payload stored at the time of
\* the return.
C2_ExpiryIsStrict ==
    [][ /\ HitStep =>
            /\ last'.key \in DOMAIN cache
            /\ now - cache[last'.key].timestamp < cacheDuration
            /\ last'.data = cache[last'.key].data
            /\ cache' = cache
        /\ MissStep =>
            /\ StartedKey \in DOMAIN cache =>
                 /\ now - cache[StartedKey].timestamp >= cacheDuration
                 /\ pending'[Len(pending')].stale
            /\ last' = last /\ cache' = cache
        /\ (SettleStep /\ last'.stale /\ last'.outcome = "ok") =>
            /\ ~last'.hit
            /\ last'.key \in DOMAIN cache'
            /\ cache'[last'.key] = [data |-> last'.data, timestamp |-> now]
      ]_vars

C2_Witness ==
    /\ last.outcome = "ok" /\ last.stale /\ ~last.hit
    /\ last.key \in DOMAIN cache
    /\ cache[last.key] = [data |-> last.data, timestamp |-> last.at]
    /\ last.at >= DefaultCacheDuration

\* C3 (as claimed): every response body that contains an `Error Message`
\* field with value X makes makeRequest fail with an error whose message is
\* exactly X, and leaves the cache as it was.
C3_ErrorMessageAlwaysFails ==
    [][(SettleStep /\ HasField(last'.body, "Error Message")) =>
          /\ last'.outcome = "error"
          /\ last'.result = [t |-> "error",
                             v |-> <<Get(last'.body, "Error Message").v>>]
          /\ cache' = cache
      ]_vars

\* C5 (as claimed): clearCache leaves the cache empty, and the next
\* makeRequest started for a key that was cached before the clear goes to the
\* network, whatever was in flight when the cache was cleared.
C5_ClearedKeyIsFetchedAgain ==
    [][ /\ ClearCache => cache' = NoCache
        /\ (StartStep /\ StartedKey \in cleared) => MissStep
      ]_vars

\* C6: when the transport reports a non-success status, makeRequest throws an
\* error carrying that status code after logging it with console.error, sends
\* no further request (no retry) and leaves the cache unchanged.
C6_TransportErrorIsRethrown ==
    [][(SettleStep /\ (last'.status < 200 \/ last'.status > 299)) =>
          /\ last'.outcome = "error"
          /\ last'.result = [t |-> "error",
                             v |-> <<"HTTP error! status: ",
                                     ToString(last'.status)>>]
          /\ last'.logged = << [level |-> "error",
                                args |-> <<"API request failed:", last'.result>>] >>
          /\ ~lastReturn'
          /\ \E i \in 1..Len(pending) : pending' = Without(pending, i)
          /\ cache' = cache
      ]_vars

C6_Witness ==
    /\ last.outcome = "error" /\ last.status = 500 /\ ~lastReturn
    /\ last.stale /\ last.key \in DOMAIN cache

\* C7: while cacheDuration is 0, every makeRequest that starts goes to the
\* network, also for a key whose entry was stored at the same clock instant.
C7_ZeroDurationBypassesCache ==
    [][(cacheDuration = 0 /\ StartStep) =>
          /\ MissStep
          /\ pending'[Len(pending')].url # <<>>
          /\ last' = last
      ]_vars

C7_Witness ==
    /\ cacheDuration = 0 /\ ticks = 0
    /\ \E i \in 1..Len(pending) :
          /\ pending[i].stale
          /\ pending[i].key \in DOMAIN cache
          /\ cache[pending[i].key].timestamp = now

\* C10: a response with a `Note` field and no `Error Message` is a success:
\* makeRequest returns the body and stores it with the time of the return, and
\* a makeRequest for a key whose stored advisory body is younger than
\* cacheDuration returns that body and sends nothing.
C10_AdvisoryIsCached ==
    [][ /\ ( /\ SettleStep
             /\ last'.status >= 200 /\ last'.status <= 299
             /\ HasField(last'.body, "Note")
             /\ ~HasField(last'.body, "Error Message") ) =>
            /\ last'.outcome = "ok" /\ lastReturn'
            /\ last'.result = last'.body
            /\ last'.key \in DOMAIN cache'
            /\ cache'[last'.key] = [data |-> last'.body, timestamp |-> now]
        /\ ( /\ StartStep
             /\ StartedKey \in DOMAIN cache
             /\ HasField(cache[StartedKey].data, "Note")
             /\ now - cache[StartedKey].timestamp < cacheDuration ) =>
            /\ HitStep
            /\ last'.result = cache[StartedKey].data
      ]_vars

C10_Witness ==
    /\ lastReturn /\ last.hit /\ HasField(last.result, "Note")
    /\ last.follows # Undefined
    /\ ~last.follows.hit /\ last.follows.key = last.key
    /\ last.follows.data = last.result

\* C11: setCacheDuration changes the threshold and nothing else, every entry
\* keeping its payload and its storedAt; and a makeRequest for a key that has
\* an entry is served from it, sending nothing, exactly when the entry's age
\* is below the threshold in force at that call, whatever the threshold was
\* at earlier calls.
C11_DurationOnlyMovesThreshold ==
    [][ /\ SetCacheDuration =>
            /\ cache' = cache
            /\ <<now, pending, last, params>>' = <<now, pending, last, params>>
        /\ (StartStep /\ StartedKey \in DOMAIN cache) =>
            /\ HitStep <=> (now - cache[StartedKey].timestamp < cacheDuration)
            /\ HitStep => /\ last'.seen = cache[StartedKey]
                          /\ last'.data = cache[StartedKey].data
                          /\ cache' = cache
      ]_vars

\* The entry served now is the one that every outstanding request passed
\* over when the threshold was lower: nothing can have been stored since
\* the youngest of them started.
C11_Witness ==
    /\ lastReturn /\ last.outcome = "ok" /\ last.hit
    /\ cacheDuration = DefaultCacheDuration
    /\ Len(pending) = MaxPending
    /\ \A i \in 1..Len(pending) : pending[i].key = last.key /\ pending[i].stale
    /\ last.seen = cache[last.key]

\* C12: parameter mappings that differ only in the order of their fields
\* have different cache keys: a makeRequest whose own serialization has no
\* entry goes to the network although the request that just succeeded with
\* the other order has stored one, and its success adds a second entry next
\* to that one, which it leaves as it was.
C12_KeyOrderSensitive ==
    [][ /\ \A a, b \in ParamLiterals : a # b => CacheKey(a) # CacheKey(b)
        /\ ( /\ StartStep
             /\ lastReturn /\ last.outcome = "ok"
             /\ StartedKey # last.key
             /\ StartedKey \notin DOMAIN cache ) => MissStep
        /\ (SettleStep /\ last'.outcome = "ok") =>
            /\ DOMAIN cache' = DOMAIN cache \cup {last'.key}
            /\ \A k \in DOMAIN cache \ {last'.key} : cache'[k] = cache[k]
      ]_vars

C12_Witness ==
    /\ lastReturn /\ last.outcome = "ok" /\ ~last.hit /\ ~last.stale
    /\ last.key = CacheKey(QuoteParamsSwapped)
    /\ DOMAIN cache = {CacheKey(QuoteParams), CacheKey(QuoteParamsSwapped)}
    /\ cache[CacheKey(QuoteParams)].timestamp < cache[last.key].timestamp
    /\ pending = <<>>

---------------------------------------------------------------------------
\* The derived operations (SpecDerived).

DerivedOps ==
    {"getGlobalQuote", "getTimeSeriesDaily", "getTimeSeriesDailyAdjusted",
     "symbolSearch", "getCompanyOverview", "getMarketStatus", "getMarketMovers",
     "getExchangeRate", "getSMA", "getRSI", "getMACD"}

\* The top-level keys some operation looks for or passes on.
RecognizedKeys ==
    {"Global Quote", "Time Series (Daily)", "bestMatches", "markets",
     "top_gainers", "top_losers", "most_actively_traded",
     "Realtime Currency Exchange Rate", "Technical Analysis: SMA",
     "Technical Analysis: RSI", "Technical Analysis: MACD", "Symbol", "Name"}

Unrecognized(data) ==
    /\ data.t = "object"
    /\ \A i \in 1..Len(data.v) :
          data.v[i][1] \notin RecognizedKeys \cup {"Error Message"}

\* The documented absent value of each operation.
AbsentValue(op) ==
    IF op \in {"getGlobalQuote", "getTimeSeriesDaily",
               "getTimeSeriesDailyAdjusted", "getExchangeRate",
               "getCompanyOverview"}
    THEN [t |-> "null"]
    ELSE IF op \in {"symbolSearch", "getMarketStatus", "getMarketMovers"}
    THEN [t |-> "array", v |-> <<>>]
    ELSE [t |-> "object", v |-> <<>>]

Returned(op) == last.outcome = "ok" /\ last.op = op

\* C4 (as claimed): every derived operation returns its documented absent
\* value for a response with no `Error Message` and none of the recognized
\* top-level keys, also for a response that carries only a `Note`.
C4_AbsentValueForEveryOperation ==
    (last.outcome = "ok" /\ last.op \in DerivedOps /\ Unrecognized(last.data))
        => last.result = AbsentValue(last.op)

\* C4 (amended): every derived operation but getCompanyOverview returns its
\* documented absent value for a response with no `Error Message` and none of
\* the recognized top-level keys; getCompanyOverview returns null only for a
\* response with no field at all, and any other response, one carrying only a
\* `Note` included, as it is.
C4_AbsentValueButOverview ==
    /\ ( /\ last.outcome = "ok"
         /\ last.op \in DerivedOps \ {"getCompanyOverview"}
         /\ Unrecognized(last.data) )
        => last.result = AbsentValue(last.op)
    /\ Returned("getCompanyOverview") =>
          last.result = IF last.data.v = <<>> THEN [t |-> "null"] ELSE last.data

C4_Witness ==
    /\ Returned("getCompanyOverview")
    /\ HasField(last.data, "Note") /\ Unrecognized(last.data)
    /\ last.result = last.data

\* C8: getMarketMovers returns the sequence its listType selects from the
\* data makeRequest returned (top_gainers for gainers, top_losers for losers,
\* most_actively_traded for active), and an empty sequence when that field is
\* missing, also when the data comes from the cache entry another listType
\* stored.
C8_MoversSelectedByListType ==
    Returned("getMarketMovers") =>
        LET field == CASE last.arg = "gainers" -> "top_gainers"
                       [] last.arg = "losers" -> "top_losers"
                       [] last.arg = "active" -> "most_actively_traded"
        IN  IF HasField(last.data, field)
            THEN last.result = Get(last.data, field)
            ELSE last.result = [t |-> "array", v |-> <<>>]

C8_Witness ==
    /\ Returned("getMarketMovers") /\ last.hit /\ last.arg = "losers"
    /\ HasField(last.data, "top_gainers") /\ HasField(last.data, "top_losers")
    /\ last.result = Get(last.data, "top_losers")
    /\ last.result # Get(last.data, "top_gainers")
    /\ last.follows # Undefined
    /\ last.follows.op = "getMarketMovers" /\ last.follows.arg = "gainers"
    /\ ~last.follows.hit

\* The calendar date a date string names, as <<year, month, day>>.
Calendar(date) ==
    LET cs == Characters(date)
    IN  <<DigitsValue(cs, 1, 4), DigitsValue(cs, 6, 2), DigitsValue(cs, 9, 2)>>

Earlier(a, b) ==
    LET x == Calendar(a)
        y == Calendar(b)
    IN  \/ x[1] < y[1]
        \/ x[1] = y[1] /\ x[2] < y[2]
        \/ x[1] = y[1] /\ x[2] = y[2] /\ x[3] < y[3]

\* C9: for a map of pairwise distinct dates in any order, getTimeSeriesDaily
\* and getTimeSeriesDailyAdjusted return one bar per input date, none lost or
\* duplicated, each with the values of its date, in strictly ascending order
\* of date.
C9_SeriesSortedPermutation ==
    \A op \in {"getTimeSeriesDaily", "getTimeSeriesDailyAdjusted"} :
        (Returned(op) /\ HasField(last.data, "Time Series (Daily)")) =>
            LET input == Get(last.data, "Time Series (Daily)").v
                bars == last.result.v
                Bar(e) == IF op = "getTimeSeriesDaily"
                          THEN DailyBar(e[1], e[2]) ELSE AdjustedBar(e[1], e[2])
            IN  /\ last.result.t = "array"
                /\ Len(bars) = Len(input)
                /\ \A i \in 1..Len(input) :
                      Cardinality({j \in 1..Len(bars) : bars[j] = Bar(input[i])}) = 1
                /\ \A j, k \in 1..Len(bars) :
                      j < k => Earlier(Get(bars[j], "date").v,
                                       Get(bars[k], "date").v)

C9_Witness ==
    /\ Returned("getTimeSeriesDailyAdjusted")
    /\ HasField(last.data, "Time Series (Daily)")
    /\ LET input == Get(last.data, "Time Series (Daily)").v
       IN  /\ Len(input) = 3
           /\ Earlier(input[3][1], input[1][1])
           /\ Earlier(input[1][1], input[2][1])
           /\ Get(last.result.v[1], "date").v = input[3][1]

\* C13: overlapping makeRequest calls are not deduplicated. A call whose key
\* has no entry goes to the network although a request with the same key is
\* outstanding; each call that succeeds returns the body of its own fetch and
\* stores it under its own key, replacing what an overlapping call stored
\* before it, and leaves the entries of all other keys as they were; a call
\* that fails stores nothing.
C13_OverlappingCallsEachFetch ==
    [][ /\ ( /\ StartStep
             /\ StartedKey \notin DOMAIN cache
             /\ \E i \in 1..Len(pending) : pending[i].key = StartedKey ) =>
            /\ MissStep
            /\ pending'[Len(pending')].url # <<>>
        /\ HitStep => last'.data = cache[last'.key].data
        /\ SettleStep =>
            /\ \E i \in 1..Len(pending) :
                  /\ pending' = Without(pending, i)
                  /\ last'.key = pending[i].key
            /\ \A k \in DOMAIN cache \ {last'.key} :
                  k \in DOMAIN cache' /\ cache'[k] = cache[k]
            /\ IF last'.outcome = "ok"
               THEN /\ last'.data = last'.body
                    /\ DOMAIN cache' = DOMAIN cache \cup {last'.key}
                    /\ cache'[last'.key] = [data |-> last'.body, timestamp |-> now]
               ELSE cache' = cache
      ]_vars

\* Two calls with one key overlapped: the first has returned its own body,
\* the second, started while nothing was stored, is still outstanding.
C13_Witness ==
    /\ last.outcome = "ok" /\ ~last.hit /\ ~last.stale
    /\ last.key \in DOMAIN cache /\ cache[last.key].data = last.data
    /\ \E i \in 1..Len(pending) :
          pending[i].key = last.key /\ ~pending[i].stale

---------------------------------------------------------------------------
\* Callers that keep their params object (SpecReuse).

\* The serialization names a field apikey.
NamesCredential(key) == \E i \in 1..Len(key) : key[i] = "apikey"

\* C16 (as claimed): no key under which an entry is stored, and no key a
\* request in flight will store under, names the apikey field, also when a
\* caller passes again an object it has passed before.
C16_NoCredentialInCacheKey ==
    /\ \A key \in DOMAIN cache : ~NamesCredential(key)
    /\ \A i \in 1..Len(pending) : ~NamesCredential(pending[i].key)

---------------------------------------------------------------------------
\* The search box (SpecSearch).

LaterTimers == {t \in timers : t.job = "later"}

\* C14: the debounced listener keeps at most one timer, that of the latest
\* input event, due 300 ms after it; every input event clears the timer
\* before it and runs nothing; handleSearch runs only when the timer fires,
\* for the latest event, 300 ms or more after it, and leaves no timer, so it
\* runs once for the last event of a burst and never for an event that
\* another followed before the timer fired.
C14_DebounceTrailingEdge ==
    /\ [] /\ Cardinality(LaterTimers) <= 1
          /\ \A t \in LaterTimers :
                t.event = events /\ t.due = typedAt + Wait /\ t.id = timeout
          /\ \A j, k \in 1..Len(ran) : j < k => ran[j].event < ran[k].event
          /\ (LaterTimers = {} /\ events > 0) =>
                (ran # <<>> /\ ran[Len(ran)].event = events)
    /\ [][ (events' # events =>
                /\ ran' = ran
                /\ LaterTimers' = {[id |-> timeout', due |-> now + Wait,
                                    job |-> "later", event |-> events']})
           /\ (ran' # ran =>
                /\ ran' = Append(ran, [event |-> events, at |-> now])
                /\ now - typedAt >= Wait
                /\ LaterTimers' = {})
          ]_vars

\* Three input events, the second within 300 ms of the first: handleSearch
\* has run for the second and the third, never for the first.
C14_Witness ==
    /\ events = 3 /\ Len(ran) = 2
    /\ ran[1].event = 2 /\ ran[2].event = 3
    /\ ran[2].at = typedAt + Wait
    /\ LaterTimers = {}

\* C15 (as claimed): whenever a call of the client that a handler of the
\* page awaits fails, the handler shows the user an alert.
C15_EveryFailureIsShown ==
    [][(SettleStep /\ last'.outcome = "error" /\ resumed'.handler # "none") =>
          (Len(alerts') = Len(alerts) + 1 /\ alerts'[Len(alerts')][1] = "Error: ")
      ]_vars

\* C17 (as claimed): once searchResults shows the results of the latest
\* query searched for, no answer to an older query replaces them.
C17_OlderAnswerNeverOverwrites ==
    [][( /\ shown.html # Undefined /\ shown.query = searched
         /\ searched' = searched ) => shown'.query = searched
      ]_vars

---------------------------------------------------------------------------
\* The order forms (SpecOrder).

\* The step in which handleBuy or handleSell goes on after its await.
OrderStep == (SettleStep \/ HitStep) /\ resumed'.handler \in {"buy", "sell"}

RefreshTimers == {t \in timers : t.job = "refresh"}
PortfolioUpdated == <<"Success: ", "Portfolio updated successfully">>

\* C18: the step that ends a buy or sell submission shows one alert: the
\* order's success message when getGlobalQuote returned a quote that is not
\* null, and then sets the one timer of a portfolio refresh; the order's
\* failure message when the quote is null or the call threw, and then sets
\* no timer. No other step shows an order message, and none but a click on
\* the refresh button starts a refresh.
C18_OneOutcomePerOrder ==
    [][ /\ OrderStep =>
            LET side == resumed'.handler
                quoted == last'.outcome = "ok" /\ last'.result # Null
                said == alerts'[Len(alerts')]
            IN  /\ Len(alerts') = Len(alerts) + 1
                /\ SubSeq(alerts', 1, Len(alerts)) = alerts
                /\ IF quoted
                   THEN /\ said[1] = "Success: " /\ said[2] = OrderPlaced(side)
                        /\ Cardinality(RefreshTimers') = Cardinality(RefreshTimers) + 1
                        /\ RefreshTimers \subseteq RefreshTimers'
                        /\ \A t \in RefreshTimers' \ RefreshTimers :
                              t.due = now + RefreshDelay
                   ELSE /\ said = <<"Error: ", OrderFailed(side)>>
                        /\ timers' = timers
        /\ ~OrderStep =>
            /\ alerts' = alerts \/ alerts' = Append(alerts, PortfolioUpdated)
            /\ RefreshPortfolio \/ RefreshTimers' \subseteq RefreshTimers
      ]_vars

\* A buy that failed on a response without a quote, then a sell that went
\* through at the quoted price and started the refresh.
C18_Witness ==
    /\ alerts = << <<"Error: ", OrderFailed("buy")>>,
                   <<"Success: ", OrderPlaced("sell"), "10", " shares of ",
                     Symbol, " at $", "139", ".", "12">> >>
    /\ resumed.handler = "sell"
    /\ Cardinality(RefreshTimers) = 1
    /\ last.outcome = "ok"

====
